---- MODULE Spec2Model ----
(***************************************************************************)
(* Verification model of the grid-aware extraction code of                 *)
(* Figma-Context-MCP:                                                      *)
(*   src/src/extractors/grid-extractor.ts   (findOrCreateVar, findNodeById,*)
(*        findParentArtboardWithGrid, createGridContext, gridCache)        *)
(*   src/src/extractors/global-styles.ts    (extractGlobalStyles)          *)
(*   src/src/extractors/grid-aware-simplifier.ts                           *)
(*        (simplifyRawFigmaObjectWithGrids)                                *)
(* The traversal, extractGridSpans and generateVarId are not part of these *)
(* files and follow the specification of the repository.                   *)
(*                                                                         *)
(* The module holds several specifications over disjoint groups of         *)
(* variables; a specification leaves the other groups at their idle value. *)
(*   SpecStore  the GlobalVars store driven by findOrCreateVar             *)
(*   SpecId     the id normalisation (dash form -> colon form)             *)
(*   SpecTree   one createGridContext call over every raw tree             *)
(*   Spec       sequences of createGridContext calls sharing gridCache     *)
(*   SpecConc   overlapping createGridContext calls sharing gridCache      *)
(*   SpecStyles the batched fetch loop of extractGlobalStyles              *)
(*   SpecSpan   the span calculation on bounding boxes and grid artboards  *)
(*   SpecWalk   a traversal running the grid extractors on every node      *)
(*   SpecSimplify  simplifyRawFigmaObjectWithGrids: grid pre-resolution,   *)
(*              then the traversal                                         *)
(*                                                                         *)
(* JavaScript strings are sequences of one-character strings.              *)
(***************************************************************************)
EXTENDS Integers, Sequences, FiniteSets, TLC

VARIABLES
    \* ---- GlobalVars store (SpecStore)
    styles,          \* globalVars.styles: entries <<id, value>> in insertion order
    varCounter,      \* the counter behind generateVarId
    history,         \* the <<value, returned id>> pairs of the calls made so far
    storeCalls,      \* number of findOrCreateVar calls made
    lastCall,        \* the arguments and the returned id of the latest call
    \* ---- id normalisation (SpecId)
    idPhase, rawId, externalId, rawFileTargetId, matched,
    \* ---- createGridContext (SpecTree, Spec)
    gridCache,       \* the module-level Map: cache key -> grid node document
    pc,              \* per call: "idle", "awaitFile", "awaitNode" or "done"
    args,            \* per call: fileKey, targetNodeId, whether rawFileData was given
    fileData,        \* per call: the local fileData
    gridInfo,        \* per call: the local gridInfo
    remote,          \* per call: how getRawFile and getRawNode settled
    result,          \* per call: how the returned promise settled
    ncalls,          \* number of createGridContext calls started
    \* ---- extractGlobalStyles (SpecStyles)
    gsPhase,         \* "idle", "awaitBatch" or "done"
    styleCount,      \* number of keys of stylesMetadata; the k-th key is style id k
    gsIndex,         \* the loop variable i
    styleNodes,      \* the keys of the local styleNodes
    requests,        \* the getRawNode calls made: ids asked for and how each settled
    gsResult,        \* how the returned promise settled
    \* ---- computeSpan (SpecSpan)
    spanPhase,       \* "idle", "picked" or "done"
    spanInput,       \* the node's bounding box and the grid artboard
    spanResult,      \* what computeSpan returned
    \* ---- traversal with grid extractors (SpecWalk)
    wPhase,          \* "idle", "walking" or "done"
    wFile,           \* the raw tree that is traversed
    wPipeline,       \* the extractors, in registration order
    wClosure,        \* what createGridExtractorWithContext bound: target id, artboard
    wStack,          \* nodes still to visit, each with its traversal context
    wExt,            \* position in the pipeline of the next extractor to run
    wOut,            \* per node: the spans reference of the output node
    wStyles,         \* globalVars.styles of the extraction
    wCounter,        \* the counter behind generateVarId during the extraction
    wLog,            \* the spans assignments made: node, extractor, artboard, value
    \* ---- simplifyRawFigmaObjectWithGrids (SpecSimplify)
    sPhase,          \* "idle", "resolving", "traversing" or "done"
    sArgs,           \* nodeExtractors, fileKey, targetNodeId, options
    sGridArtboard,   \* the local gridArtboard
    enhancedOptions  \* the options handed to simplifyRawFigmaObject

storeVars == <<styles, varCounter, history, storeCalls, lastCall>>
idVars    == <<idPhase, rawId, externalId, rawFileTargetId, matched>>
ctxVars   == <<gridCache, pc, args, fileData, gridInfo, remote, result, ncalls>>
gsVars    == <<gsPhase, styleCount, gsIndex, styleNodes, requests, gsResult>>
spanVars  == <<spanPhase, spanInput, spanResult>>
walkVars  == <<wPhase, wFile, wPipeline, wClosure, wStack, wExt, wOut, wStyles, wCounter,
               wLog>>
simVars   == <<sPhase, sArgs, sGridArtboard, enhancedOptions>>
vars      == <<storeVars, idVars, ctxVars, gsVars, spanVars, walkVars, simVars>>

\* What the actions of one group leave alone.
notStore == <<idVars, ctxVars, gsVars, spanVars, walkVars, simVars>>
notId == <<storeVars, ctxVars, gsVars, spanVars, walkVars, simVars>>
notCtx == <<storeVars, idVars, gsVars, spanVars, walkVars, simVars>>
notGs == <<storeVars, idVars, ctxVars, spanVars, walkVars, simVars>>
notSpan == <<storeVars, idVars, ctxVars, gsVars, walkVars, simVars>>
notWalk == <<storeVars, idVars, ctxVars, gsVars, spanVars, simVars>>
notSim == <<storeVars, idVars, ctxVars, gsVars, spanVars, walkVars>>

(***************************************************************************)
(* Bounds of the model.                                                    *)
(***************************************************************************)
MaxStoreCalls == 2
MaxIdLen == 3
MaxNodes == 3
MaxCalls == 2
MaxStyleIds == 120

(***************************************************************************)
(* Small helpers.                                                          *)
(***************************************************************************)
Range(s) == {s[i] : i \in 1..Len(s)}

Min(S) == CHOOSE x \in S : \A y \in S : x <= y

SeqsUpTo(S, n) == UNION {[1..k -> S] : k \in 1..n}

(***************************************************************************)
(* GlobalVars store: findOrCreateVar (grid-extractor.ts 13-28).            *)
(*                                                                         *)
(* A style value is a JavaScript object: a sequence of <<key, value>>      *)
(* pairs in the order the keys were set, with distinct keys.  The atoms    *)
(* are a number, the number NaN and null.                                  *)
(***************************************************************************)
Keys == {"width", "startColumn"}
Atoms == {"1", "NaN", "null"}
Prefixes == {"spans", "layout"}

Values ==
    {v \in SeqsUpTo(Keys \X Atoms, 2) : \A i, j \in 1..Len(v) : v[i][1] = v[j][1] => i = j}

\* Deep value equality of two objects: the same keys carrying the same values.
StructEq(a, b) == Range(a) = Range(b)

\* JSON.stringify of one atom: NaN is written as null.
JSONAtom(x) == IF x = "NaN" THEN "null" ELSE x

\* JSON.stringify of an object: the members in key order of the object,
\* members whose value is undefined left out.
JSONstringify(v) ==
    LET kept == SelectSeq(v, LAMBDA m : m[2] # "undefined")
    IN  [i \in 1..Len(kept) |-> <<kept[i][1], JSONAtom(kept[i][2])>>]

\* generateVarId: the kind prefix and the next value of the counter.
generateVarId(prefix, counter) == <<prefix, counter + 1>>

\* Mutant of SetStyle: the value is not stored.
SetStyleDropped(st, varId, value) == st

\* globalVars.styles[varId] = value
SetStyle(st, varId, value) ==
    IF \E i \in 1..Len(st) : st[i][1] = varId
    THEN [i \in 1..Len(st) |-> IF st[i][1] = varId THEN <<varId, value>> ELSE st[i]]
    ELSE Append(st, <<varId, value>>)

\* Mutant of FindExisting: the lookup finds nothing.
FindNothing(st, value) == 0

\* A lookup that matches only entries of the kind asked for.
FindExistingOfKind(st, value, prefix) ==
    LET hits == {i \in 1..Len(st) : /\ JSONstringify(st[i][2]) = JSONstringify(value)
                                    /\ st[i][1][1] = prefix}
    IN  IF hits = {} THEN 0 ELSE Min(hits)

\* The first entry whose serialisation equals that of value, or 0.
FindExisting(st, value) ==
    LET hits == {i \in 1..Len(st) : JSONstringify(st[i][2]) = JSONstringify(value)}
    IN  IF hits = {} THEN 0 ELSE Min(hits)

\* Mutant of findOrCreateVar: values are deduplicated per kind only.
findOrCreateVarPerKind(st, counter, value, prefix) ==
    LET existing == FindExistingOfKind(st, value, prefix)
    IN  IF existing # 0
        THEN [id |-> st[existing][1], styles |-> st, counter |-> counter]
        ELSE LET varId == generateVarId(prefix, counter)
             IN  [id |-> varId, styles |-> SetStyle(st, varId, value),
                  counter |-> counter + 1]

\* findOrCreateVar(globalVars, value, prefix): the id returned and the store after.
findOrCreateVar(st, counter, value, prefix) ==
    LET existing == FindExisting(st, value)
    IN  IF existing # 0
        THEN [id |-> st[existing][1], styles |-> st, counter |-> counter]
        ELSE LET varId == generateVarId(prefix, counter)
             IN  [id |-> varId, styles |-> SetStyle(st, varId, value),
                  counter |-> counter + 1]

NoCall == [value |-> <<>>, prefix |-> "", id |-> <<>>]

StoreIdle ==
    /\ styles = <<>>
    /\ varCounter = 0
    /\ history = {}
    /\ storeCalls = 0
    /\ lastCall = NoCall

CallFindOrCreateVar ==
    /\ storeCalls < MaxStoreCalls
    /\ \E value \in Values, prefix \in Prefixes :
         LET r == findOrCreateVar(styles, varCounter, value, prefix)
         IN  /\ styles' = r.styles
             /\ varCounter' = r.counter
             /\ history' = history \cup {<<value, r.id>>}
             /\ lastCall' = [value |-> value, prefix |-> prefix, id |-> r.id]
    /\ storeCalls' = storeCalls + 1
    /\ UNCHANGED notStore

(***************************************************************************)
(* Id normalisation (grid-extractor.ts 36, 60, 162).                       *)
(***************************************************************************)
IdChars == {"1", "a", ":", "-"}

RawIds == SeqsUpTo(IdChars, MaxIdLen)

\* targetId.replace(/-/g, ':')
NormalizeId(s) == [i \in 1..Len(s) |-> IF s[i] = "-" THEN ":" ELSE s[i]]

\* The external dash-delimited form of a raw-tree id: every ':' written as '-'.
ExternalForm(s) == [i \in 1..Len(s) |-> IF s[i] = ":" THEN "-" ELSE s[i]]

IdIdle ==
    /\ idPhase = "idle"
    /\ rawId = <<>>
    /\ externalId = <<>>
    /\ rawFileTargetId = <<>>
    /\ matched = FALSE

\* A node of the raw tree carries the id rawId.
PickRawId ==
    /\ idPhase = "idle"
    /\ \E s \in RawIds : rawId' = s
    /\ idPhase' = "raw"
    /\ UNCHANGED <<externalId, rawFileTargetId, matched>>
    /\ UNCHANGED notId

\* The id crosses the boundary in its external form.
Externalize ==
    /\ idPhase = "raw"
    /\ externalId' = ExternalForm(rawId)
    /\ idPhase' = "external"
    /\ UNCHANGED <<rawId, rawFileTargetId, matched>>
    /\ UNCHANGED notId

\* const rawFileTargetId = targetId.replace(/-/g, ':')
NormalizeTarget ==
    /\ idPhase = "external"
    /\ rawFileTargetId' = NormalizeId(externalId)
    /\ idPhase' = "normalized"
    /\ UNCHANGED <<rawId, externalId, matched>>
    /\ UNCHANGED notId

\* node.id === rawFileTargetId
CompareId ==
    /\ idPhase = "normalized"
    /\ matched' = (rawId = rawFileTargetId)
    /\ idPhase' = "compared"
    /\ UNCHANGED <<rawId, externalId, rawFileTargetId>>
    /\ UNCHANGED notId

(***************************************************************************)
(* The raw document tree (grid-extractor.ts 34-103).                       *)
(*                                                                         *)
(* A file holds MaxNodes nodes 1..MaxNodes below the document; parent[i]   *)
(* is the parent of node i (0: a child of the document), children are      *)
(* ordered by number, so the numbers are the preorder of the tree.  Raw    *)
(* ids are unique and colon-delimited.                                     *)
(***************************************************************************)
Digit(i) == <<"1", "2", "3", "4", "5", "6", "7", "8", "9">>[i]

\* node.id of node i
RawNodeId(i) == <<"1", ":", Digit(i)>>

\* The id of the grid style node that fileData.styles.grid gives for frame i.
StyleNodeId(i) == <<"9", ":", Digit(i)>>

ColumnsFrame   == [type |-> "FRAME", hasGrids |-> TRUE, layoutGrids |-> <<"ROWS", "COLUMNS">>]
RowsFrame      == [type |-> "FRAME", hasGrids |-> TRUE, layoutGrids |-> <<"ROWS">>]
PlainFrame     == [type |-> "FRAME", hasGrids |-> FALSE, layoutGrids |-> <<>>]
ColumnsComponent == [type |-> "COMPONENT", hasGrids |-> TRUE, layoutGrids |-> <<"COLUMNS">>]

NodeKinds == {ColumnsFrame, RowsFrame, PlainFrame, ColumnsComponent}

NodeIds == 1..MaxNodes

Parents == {f \in [NodeIds -> 0..(MaxNodes - 1)] : \A i \in NodeIds : f[i] < i}

\* fileData.styles: without a grid member, or with one that maps the frames
\* in mapped (the first node of the file) to their grid style node.
StylesOptions ==
    {[hasGrid |-> FALSE, mapped |-> {}], [hasGrid |-> TRUE, mapped |-> {1}]}

\* Every well-formed file response.
Files ==
    {[ok |-> TRUE, parent |-> f, kind |-> k, styles |-> st] :
        f \in Parents, k \in [NodeIds -> NodeKinds], st \in StylesOptions}

\* The files used where several calls follow each other: chains of frames
\* with or without a columns grid.
ChainFiles ==
    {F \in Files : /\ \A i \in NodeIds : F.parent[i] = i - 1
                   /\ \A i \in NodeIds : F.kind[i] \in {ColumnsFrame, PlainFrame}}

\* A response without a document.
MalformedFile == [ok |-> FALSE]

\* External ids of the nodes, and of a node that is in no tree.
TargetIds == {ExternalForm(RawNodeId(i)) : i \in 1..(MaxNodes + 1)}

\* The same, and one id already in colon form.
TreeTargetIds == TargetIds \cup {RawNodeId(MaxNodes)}

RECURSIVE SortedSeq(_)
SortedSeq(S) == IF S = {} THEN <<>> ELSE <<Min(S)>> \o SortedSeq(S \ {Min(S)})

\* node.children, and fileData.document.children for node 0
Children(F, i) == SortedSeq({j \in NodeIds : F.parent[j] = i})

\* node.type === 'FRAME' && node.layoutGrids &&
\* node.layoutGrids.some((grid) => grid.pattern === 'COLUMNS')
IsGridFrame(kind) ==
    /\ kind.type = "FRAME"
    /\ kind.hasGrids
    /\ \E g \in 1..Len(kind.layoutGrids) : kind.layoutGrids[g] = "COLUMNS"

\* Mutant of GridFrameForChildren: an inherited grid frame is kept, so the
\* outermost grid frame wins.
GridFrameOutermost(kind, node, parentGridFrame) ==
    IF parentGridFrame # 0
    THEN parentGridFrame
    ELSE IF IsGridFrame(kind) THEN node ELSE parentGridFrame

\* gridFrameForChildren: the node itself when it is a grid frame, else the
\* frame inherited from the parent.
GridFrameForChildren(kind, node, parentGridFrame) ==
    IF IsGridFrame(kind) THEN node ELSE parentGridFrame

\* Mutant of FrameAtTarget: the target's own scope is used.
FrameAtTargetOwn(parentGridFrame, gridFrameForChildren) == gridFrameForChildren

\* The frame used on reaching the target: the parent grid frame, not the node.
FrameAtTarget(parentGridFrame, gridFrameForChildren) == parentGridFrame

NoGridInfo == [kind |-> "null"]

\* Mutant of InfoAtTarget: the style map is not consulted.
InfoAtTargetOwnId(F, frame) ==
    IF frame # 0
    THEN [kind |-> "info", artboard |-> frame, gridNodeId |-> RawNodeId(frame)]
    ELSE NoGridInfo

\* The value returned for the target below parentGridFrame (lines 79-90).
InfoAtTarget(F, frame) ==
    IF frame # 0
    THEN IF F.styles.hasGrid /\ frame \in F.styles.mapped
         THEN [kind |-> "info", artboard |-> frame, gridNodeId |-> StyleNodeId(frame)]
         ELSE [kind |-> "info", artboard |-> frame, gridNodeId |-> RawNodeId(frame)]
    ELSE NoGridInfo

RECURSIVE searchWithParent(_, _, _, _)
searchWithParent(F, rawTargetId, nodes, parentGridFrame) ==
    IF nodes = <<>>
    THEN NoGridInfo
    ELSE LET node == Head(nodes)
             gridFrameForChildren ==
                 GridFrameForChildren(F.kind[node], node, parentGridFrame)
         IN  IF RawNodeId(node) = rawTargetId
             THEN InfoAtTarget(F, FrameAtTarget(parentGridFrame, gridFrameForChildren))
             ELSE LET found == searchWithParent(F, rawTargetId, Children(F, node),
                                                gridFrameForChildren)
                  IN  IF found # NoGridInfo
                      THEN found
                      ELSE searchWithParent(F, rawTargetId, Tail(nodes), parentGridFrame)

findParentArtboardWithGrid(F, targetNodeId) ==
    searchWithParent(F, NormalizeId(targetNodeId), Children(F, 0), 0)

\* Mutant of findNodeById: the children are not searched.
findNodeByIdShallow(F, nodes, targetId) ==
    LET hits == {i \in Range(nodes) : RawNodeId(i) = NormalizeId(targetId)}
    IN  IF hits = {} THEN 0 ELSE Min(hits)

\* findNodeById: the node found, or 0 for null.
RECURSIVE findNodeById(_, _, _)
findNodeById(F, nodes, targetId) ==
    LET rawTargetId == NormalizeId(targetId)
    IN  IF nodes = <<>>
        THEN 0
        ELSE LET node == Head(nodes)
             IN  IF RawNodeId(node) = rawTargetId
                 THEN node
                 ELSE LET found == findNodeById(F, Children(F, node), rawTargetId)
                      IN  IF found # 0
                          THEN found
                          ELSE findNodeById(F, Tail(nodes), rawTargetId)

(***************************************************************************)
(* createGridContext (grid-extractor.ts 108-155) and gridCache (line 8).   *)
(***************************************************************************)
FileKeys == {<<"F">>, <<"G">>}

Revisions == {"r1", "r2"}

Procs == {"p1", "p2"}

\* null and undefined
NullDoc == [null |-> TRUE]

\* The document getRawNode(fileKey, nodeId) delivers: the node nodeId of the
\* file, in the revision the file has at that time.
NodeDoc(fileKey, nodeId, rev) == [file |-> fileKey, id |-> nodeId, rev |-> rev]

\* What a fulfilled getRawNode can hold: no nodes member, an empty nodes
\* object, a null entry for the id, or the node.
NodeResponses(fileKey, nodeId) ==
    {[kind |-> "noNodes"], [kind |-> "empty"], [kind |-> "nullEntry"]}
        \cup {[kind |-> "node", document |-> NodeDoc(fileKey, nodeId, r)] : r \in Revisions}

\* Mutant of CacheKey: the file key is left out of the key.
CacheKeyNoFile(fileKey, gridNodeId) == gridNodeId

\* `${fileKey}:${gridInfo.gridNodeId}`
CacheKey(fileKey, gridNodeId) == fileKey \o <<":">> \o gridNodeId

NoResult == [kind |-> "none"]

Resolved(gridArtboard, targetFound) ==
    [kind |-> "resolved", gridArtboard |-> gridArtboard, targetFound |-> targetFound]

Rejected == [kind |-> "rejected"]

\* What a step that throws leaves in place of a return value.
Thrown == [kind |-> "thrown"]

\* The return value of the catch block (line 153).
CatchError == Resolved(NullDoc, FALSE)

\* Mutant of TryCatch: the statement stands outside the try block.
NoTry(r) == r

\* try { ... } catch (error) { ... }: what is thrown inside try is caught.
TryCatch(r) == IF r = Thrown THEN CatchError ELSE r

\* An async function rejects its promise with what its body throws.
AsyncReturn(r) == IF r = Thrown THEN Rejected ELSE r

\* gridCache.set(cacheKey, gridNode)
CacheSet(cache, key, doc) ==
    [k \in (DOMAIN cache) \cup {key} |-> IF k = key THEN doc ELSE cache[k]]

\* Lines 118-143, run without suspension once fileData is there: where the
\* call stands after them.  Reading document.children of a response without
\* a document throws.
AfterFileData(cache, fileKey, targetNodeId, fd) ==
    IF ~fd.ok
    THEN [pc |-> "done", gridInfo |-> NoGridInfo, result |-> Thrown]
    ELSE LET info == findParentArtboardWithGrid(fd, targetNodeId)
         IN  IF info = NoGridInfo
             THEN [pc |-> "done", gridInfo |-> info,
                   result |-> Resolved(NullDoc,
                                       findNodeById(fd, Children(fd, 0), targetNodeId) # 0)]
             ELSE LET cacheKey == CacheKey(fileKey, info.gridNodeId)
                  IN  IF cacheKey \in DOMAIN cache
                      THEN [pc |-> "done", gridInfo |-> info,
                            result |-> Resolved(cache[cacheKey], TRUE)]
                      ELSE [pc |-> "awaitNode", gridInfo |-> info, result |-> NoResult]

\* Lines 137-149, run when getRawNode is fulfilled with resp.  Object.values
\* of a missing nodes member throws.
AfterNodeResponse(cache, fileKey, info, resp) ==
    IF resp.kind = "noNodes"
    THEN [cache |-> cache, result |-> Thrown]
    ELSE LET gridNode == IF resp.kind = "node" THEN resp.document ELSE NullDoc
         IN  [cache |-> IF gridNode # NullDoc
                        THEN CacheSet(cache, CacheKey(fileKey, info.gridNodeId), gridNode)
                        ELSE cache,
              result |-> Resolved(gridNode, TRUE)]

NoArgs == [fileKey |-> <<>>, targetNodeId |-> <<>>, rawFileData |-> FALSE]

NoRemote == [file |-> "none", node |-> "none"]

EmptyCache == [k \in {} |-> NullDoc]

CtxIdle ==
    /\ gridCache = EmptyCache
    /\ pc = [p \in Procs |-> "idle"]
    /\ args = [p \in Procs |-> NoArgs]
    /\ fileData = [p \in Procs |-> MalformedFile]
    /\ gridInfo = [p \in Procs |-> NoGridInfo]
    /\ remote = [p \in Procs |-> NoRemote]
    /\ result = [p \in Procs |-> NoResult]
    /\ ncalls = 0

\* The call goes on with fileData fd, which is the rawFileData given
\* (fileOutcome "none") or what getRawFile was fulfilled with.
Proceed(p, fileKey, targetNodeId, given, fd, fileOutcome) ==
    LET after == AfterFileData(gridCache, fileKey, targetNodeId, fd)
    IN  /\ pc' = [pc EXCEPT ![p] = after.pc]
        /\ args' = [args EXCEPT ![p] = [fileKey |-> fileKey, targetNodeId |-> targetNodeId,
                                        rawFileData |-> given]]
        /\ fileData' = [fileData EXCEPT ![p] = fd]
        /\ gridInfo' = [gridInfo EXCEPT ![p] = after.gridInfo]
        /\ remote' = [remote EXCEPT ![p] =
                         [file |-> fileOutcome,
                          node |-> IF after.pc = "awaitNode" THEN "pending" ELSE "none"]]
        /\ result' = [result EXCEPT ![p] = AsyncReturn(TryCatch(after.result))]
        /\ UNCHANGED gridCache

\* createGridContext(figmaService, fileKey, targetNodeId, rawFileData)
CallWithData(p, files, targets) ==
    /\ pc[p] = "idle"
    /\ ncalls < MaxCalls
    /\ \E fileKey \in FileKeys, targetNodeId \in targets, fd \in files \cup {MalformedFile} :
         Proceed(p, fileKey, targetNodeId, TRUE, fd, "none")
    /\ ncalls' = ncalls + 1
    /\ UNCHANGED notCtx

\* createGridContext(figmaService, fileKey, targetNodeId): suspends at
\* await figmaService.getRawFile(fileKey)
SuspendAtRawFile(p, fileKey, targetNodeId) ==
    /\ args' = [args EXCEPT ![p] = [fileKey |-> fileKey, targetNodeId |-> targetNodeId,
                                    rawFileData |-> FALSE]]
    /\ pc' = [pc EXCEPT ![p] = "awaitFile"]
    /\ remote' = [remote EXCEPT ![p] = [file |-> "pending", node |-> "none"]]
    /\ ncalls' = ncalls + 1
    /\ UNCHANGED <<gridCache, fileData, gridInfo, result>>

CallWithoutData(p, targets) ==
    /\ pc[p] = "idle"
    /\ ncalls < MaxCalls
    /\ \E fileKey \in FileKeys, targetNodeId \in targets :
         SuspendAtRawFile(p, fileKey, targetNodeId)
    /\ UNCHANGED notCtx

\* getRawFile is fulfilled
RawFileFulfilled(p, files) ==
    /\ pc[p] = "awaitFile"
    /\ \E fd \in files \cup {MalformedFile} :
         Proceed(p, args[p].fileKey, args[p].targetNodeId, args[p].rawFileData, fd,
                 "fulfilled")
    /\ UNCHANGED ncalls
    /\ UNCHANGED notCtx

\* getRawFile is rejected: the await throws
RawFileRejected(p) ==
    /\ pc[p] = "awaitFile"
    /\ pc' = [pc EXCEPT ![p] = "done"]
    /\ remote' = [remote EXCEPT ![p] = [file |-> "rejected", node |-> "none"]]
    /\ result' = [result EXCEPT ![p] = AsyncReturn(TryCatch(Thrown))]
    /\ UNCHANGED <<gridCache, args, fileData, gridInfo, ncalls>>
    /\ UNCHANGED notCtx

\* getRawNode is fulfilled
RawNodeFulfilled(p) ==
    /\ pc[p] = "awaitNode"
    /\ \E resp \in NodeResponses(args[p].fileKey, gridInfo[p].gridNodeId) :
         LET after == AfterNodeResponse(gridCache, args[p].fileKey, gridInfo[p], resp)
         IN  /\ gridCache' = after.cache
             /\ result' = [result EXCEPT ![p] = AsyncReturn(TryCatch(after.result))]
    /\ pc' = [pc EXCEPT ![p] = "done"]
    /\ remote' = [remote EXCEPT ![p].node = "fulfilled"]
    /\ UNCHANGED <<args, fileData, gridInfo, ncalls>>
    /\ UNCHANGED notCtx

\* getRawNode is rejected: the await throws
RawNodeRejected(p) ==
    /\ pc[p] = "awaitNode"
    /\ pc' = [pc EXCEPT ![p] = "done"]
    /\ remote' = [remote EXCEPT ![p].node = "rejected"]
    /\ result' = [result EXCEPT ![p] = AsyncReturn(TryCatch(Thrown))]
    /\ UNCHANGED <<gridCache, args, fileData, gridInfo, ncalls>>
    /\ UNCHANGED notCtx

\* The caller has taken the result; the locals of the call are gone.
CallOver(p) ==
    /\ pc[p] = "done"
    /\ pc' = [pc EXCEPT ![p] = "idle"]
    /\ args' = [args EXCEPT ![p] = NoArgs]
    /\ fileData' = [fileData EXCEPT ![p] = MalformedFile]
    /\ gridInfo' = [gridInfo EXCEPT ![p] = NoGridInfo]
    /\ remote' = [remote EXCEPT ![p] = NoRemote]
    /\ result' = [result EXCEPT ![p] = NoResult]
    /\ UNCHANGED <<gridCache, ncalls>>
    /\ UNCHANGED notCtx

\* One call over every tree.
TreeCallWithData == CallWithData("p1", Files, TreeTargetIds)
TreeCallWithoutData == CallWithoutData("p1", TreeTargetIds)
TreeRawFileFulfilled == RawFileFulfilled("p1", Files)
TreeRawFileRejected == RawFileRejected("p1")
TreeRawNodeFulfilled == RawNodeFulfilled("p1")
TreeRawNodeRejected == RawNodeRejected("p1")

\* Calls one after the other.
SeqCallWithData == CallWithData("p1", ChainFiles, TargetIds)
SeqCallWithoutData == CallWithoutData("p1", TargetIds)
SeqRawFileFulfilled == RawFileFulfilled("p1", ChainFiles)
SeqRawFileRejected == RawFileRejected("p1")
SeqRawNodeFulfilled == RawNodeFulfilled("p1")
SeqRawNodeRejected == RawNodeRejected("p1")
SeqCallOver == CallOver("p1")

\* The files used where calls overlap: a columns frame with a chain of
\* plain frames below it, with and without a style-map entry.
ConcFiles ==
    {F \in ChainFiles : /\ F.kind[1] = ColumnsFrame
                        /\ \A i \in NodeIds \ {1} : F.kind[i] = PlainFrame}

\* Calls of several callers, each suspended at its awaits while the
\* others run.
ConcCallWithData == \E p \in Procs : CallWithData(p, ConcFiles, TargetIds)
ConcCallWithoutData == \E p \in Procs : CallWithoutData(p, TargetIds)
ConcRawFileFulfilled == \E p \in Procs : RawFileFulfilled(p, ConcFiles)
ConcRawFileRejected == \E p \in Procs : RawFileRejected(p)
ConcRawNodeFulfilled == \E p \in Procs : RawNodeFulfilled(p)
ConcRawNodeRejected == \E p \in Procs : RawNodeRejected(p)

(***************************************************************************)
(* extractGlobalStyles (global-styles.ts 217-257).                         *)
(*                                                                         *)
(* stylesMetadata has styleCount keys; style id k is its k-th key, so      *)
(* styleIds is <<1, ..., styleCount>>.  The style types follow each other  *)
(* in turn.  A fetched style node carries the data its type is read for.   *)
(***************************************************************************)
batchSize == 50

StyleTypeOf(k) == <<"GRID", "TEXT", "FILL">>[(k % 3) + 1]

\* Object.keys(stylesMetadata)
StyleIdsOf(n) == [k \in 1..n |-> k]

\* Mutant of Slice: the end index is taken as inclusive.
SliceInclusive(ids, from, to) ==
    LET last == IF to + 1 < Len(ids) THEN to + 1 ELSE Len(ids)
    IN  [k \in 1..(IF last > from THEN last - from ELSE 0) |-> ids[from + k]]

\* styleIds.slice(i, i + batchSize)
Slice(ids, from, to) ==
    LET last == IF to < Len(ids) THEN to ELSE Len(ids)
    IN  [k \in 1..(IF last > from THEN last - from ELSE 0) |-> ids[from + k]]

\* What a fulfilled getRawNode of a batch can hold: the nodes of the ids
\* asked for, or no nodes member.
BatchResponses == {"nodes", "noNodes"}

\* if (batchResponse.nodes) Object.assign(styleNodes, batchResponse.nodes)
AssignNodes(nodes, batch, resp) ==
    IF resp = "nodes" THEN nodes \cup Range(batch) ELSE nodes

\* Mutant of NextIndexAfterCatch: a failed batch ends the loop.
AbortAfterCatch(i, n) == n

\* The loop variable after the catch block of a failed batch: the loop goes on.
NextIndexAfterCatch(i, n) == i + batchSize

\* extractGridSystemsFromNodes, extractFontStylesFromNodes and
\* extractColorsFromNodes: the styles whose node is in styleNodes, by type,
\* in the order of stylesMetadata.
ExtractedStyles(nodes, n) ==
    [gridSystems |-> {k \in 1..n : k \in nodes /\ StyleTypeOf(k) = "GRID"},
     fontStyles |-> SelectSeq(StyleIdsOf(n), LAMBDA k : k \in nodes /\ StyleTypeOf(k) = "TEXT"),
     colors |-> SelectSeq(StyleIdsOf(n), LAMBDA k : k \in nodes /\ StyleTypeOf(k) = "FILL")]

NoStyles == [gridSystems |-> {}, fontStyles |-> <<>>, colors |-> <<>>]

GsIdle ==
    /\ gsPhase = "idle"
    /\ styleCount = 0
    /\ gsIndex = 0
    /\ styleNodes = {}
    /\ requests = <<>>
    /\ gsResult = NoResult

\* The loop from its test at index i: the next batch is asked for and
\* awaited, or the loop is over and the result is returned.
LoopFrom(i, n, nodes, reqs) ==
    IF i < n
    THEN /\ gsPhase' = "awaitBatch"
         /\ requests' = Append(reqs, [ids |-> Slice(StyleIdsOf(n), i, i + batchSize),
                                      outcome |-> "pending"])
         /\ gsResult' = NoResult
    ELSE /\ gsPhase' = "done"
         /\ requests' = reqs
         /\ gsResult' = [kind |-> "resolved", value |-> ExtractedStyles(nodes, n)]

\* extractGlobalStyles(figmaService, fileKey, stylesMetadata)
CallExtractGlobalStyles ==
    /\ gsPhase = "idle"
    /\ \E n \in 0..MaxStyleIds :
         /\ styleCount' = n
         /\ IF n = 0
            THEN /\ gsPhase' = "done"
                 /\ gsResult' = [kind |-> "resolved", value |-> NoStyles]
                 /\ requests' = requests
            ELSE LoopFrom(0, n, {}, <<>>)
    /\ gsIndex' = 0
    /\ styleNodes' = {}
    /\ UNCHANGED notGs

SettleLast(reqs, outcome) == [reqs EXCEPT ![Len(reqs)].outcome = outcome]

\* getRawNode of the batch is fulfilled
BatchFulfilled ==
    /\ gsPhase = "awaitBatch"
    /\ \E resp \in BatchResponses :
         LET nodes == AssignNodes(styleNodes, requests[Len(requests)].ids, resp)
         IN  /\ styleNodes' = nodes
             /\ gsIndex' = gsIndex + batchSize
             /\ LoopFrom(gsIndex + batchSize, styleCount, nodes, SettleLast(requests, resp))
    /\ UNCHANGED styleCount
    /\ UNCHANGED notGs

\* getRawNode of the batch is rejected: the catch block logs and the loop goes on
BatchRejected ==
    /\ gsPhase = "awaitBatch"
    /\ gsIndex' = NextIndexAfterCatch(gsIndex, styleCount)
    /\ LoopFrom(NextIndexAfterCatch(gsIndex, styleCount), styleCount, styleNodes,
                SettleLast(requests, "rejected"))
    /\ UNCHANGED <<styleCount, styleNodes>>
    /\ UNCHANGED notGs

(***************************************************************************)
(* SpanCalculator: computeSpan(nodeBoundingBox, gridArtboard).             *)
(*                                                                         *)
(* Lengths are whole pixels.  The section size and the pitch are           *)
(* fractions; the pitch is kept as numerator and denominator:              *)
(*   sectionSize = (artboardWidth - 2*margin - (count-1)*gutter) / count   *)
(*   pitch       = sectionSize + gutter                                    *)
(*               = (artboardWidth - 2*margin + gutter) / count             *)
(***************************************************************************)
Floor(a, b) == a \div b

Ceil(a, b) == 0 - ((0 - a) \div b)

Clamp(x, lo, hi) == IF x < lo THEN lo ELSE IF x > hi THEN hi ELSE x

SectionSizeNum(artboardWidth, grid) ==
    artboardWidth - 2 * grid.margin - (grid.count - 1) * grid.gutter

PitchNum(artboardWidth, grid) ==
    SectionSizeNum(artboardWidth, grid) + grid.count * grid.gutter

NoSpan == [null |-> TRUE]

\* The columns-pattern grids of the artboard, in order.
ColumnGrids(artboard) == SelectSeq(artboard.layoutGrids, LAMBDA g : g.pattern = "COLUMNS")

computeSpan(box, artboard) ==
    IF ColumnGrids(artboard) = <<>>
    THEN NoSpan
    ELSE LET grid == ColumnGrids(artboard)[1]
             localX == box.x - artboard.x
             num == PitchNum(artboard.width, grid)
         IN  [width |-> box.width,
              startColumn |->
                  Clamp(Floor((localX - grid.margin) * grid.count, num), 0, grid.count - 1),
              endColumn |->
                  Clamp(Ceil((localX + box.width - grid.margin) * grid.count, num),
                        0, grid.count - 1)]

SpanGrids ==
    [pattern : {"COLUMNS", "ROWS"}, count : {12, 4}, gutter : {20, 0}, margin : {0, 40}]

SpanArtboards ==
    {[x |-> ax, width |-> w, layoutGrids |-> gs] :
        ax \in {0, 100}, w \in {1200, 960},
        gs \in {<<>>} \cup {<<g>> : g \in SpanGrids}}

SpanBoxes == [x : {0 - 100, 0, 400, 1300}, width : {400, 100}]

NoSpanInput == [none |-> TRUE]

SpanIdle ==
    /\ spanPhase = "idle"
    /\ spanInput = NoSpanInput
    /\ spanResult = NoSpan

PickSpanInput ==
    /\ spanPhase = "idle"
    /\ \E box \in SpanBoxes, artboard \in SpanArtboards :
         spanInput' = [box |-> box, artboard |-> artboard]
    /\ spanPhase' = "picked"
    /\ UNCHANGED spanResult
    /\ UNCHANGED notSpan

CallComputeSpan ==
    /\ spanPhase = "picked"
    /\ spanResult' = computeSpan(spanInput.box, spanInput.artboard)
    /\ spanPhase' = "done"
    /\ UNCHANGED spanInput
    /\ UNCHANGED notSpan

(***************************************************************************)
(* The grid extractors (grid-extractor.ts 160-197) run by the traversal.   *)
(*                                                                         *)
(* A context artboard is null, a node of the tree ([node |-> i]) or a      *)
(* fetched document ([doc |-> d]).  Node i has the bounding box NodeBox(i),*)
(* a frame of the tree the geometry FrameGeometry.                         *)
(***************************************************************************)
NodeBox(i) == [x |-> 100 * i + 50, width |-> 300]

GridOfPattern(pattern) == [pattern |-> pattern, count |-> 12, gutter |-> 20, margin |-> 0]

FrameGeometry(F, i) ==
    [x |-> 100 * i, width |-> 1200,
     layoutGrids |-> [g \in 1..Len(F.kind[i].layoutGrids) |->
                         GridOfPattern(F.kind[i].layoutGrids[g])]]

\* Fetched grid node documents: one with a columns grid, one without a
\* layoutGrids member.
ColumnsDoc ==
    [hasGrids |-> TRUE, x |-> 0, width |-> 1200, layoutGrids |-> <<GridOfPattern("COLUMNS")>>]

BareDoc == [hasGrids |-> FALSE, x |-> 0, width |-> 1200, layoutGrids |-> <<>>]

ClosureArtboards == {NullDoc, [doc |-> ColumnsDoc], [doc |-> BareDoc]}

ArtboardGeometry(F, a) ==
    IF "node" \in DOMAIN a
    THEN FrameGeometry(F, a.node)
    ELSE IF "rev" \in DOMAIN a.doc
         THEN [x |-> 0, width |-> 1200, layoutGrids |-> <<GridOfPattern("COLUMNS")>>]
         ELSE [x |-> a.doc.x, width |-> a.doc.width, layoutGrids |-> a.doc.layoutGrids]

\* extractGridSpans(node, { artboard }): no span without an artboard.
extractGridSpans(F, node, a) ==
    IF a = NullDoc THEN NoSpan ELSE computeSpan(NodeBox(node), ArtboardGeometry(F, a))

\* The span as the object that is stored.
SpanObject(r) ==
    <<<<"width", ToString(r.width)>>, <<"startColumn", ToString(r.startColumn)>>,
      <<"endColumn", ToString(r.endColumn)>>>>

NoRef == <<>>

\* What one extractor invocation leaves: the spans reference of the output
\* node, the context artboard, the store, and the assignment it made.
Untouched(spansRef, ctxArtboard, st, counter) ==
    [spans |-> spansRef, artboard |-> ctxArtboard, styles |-> st, counter |-> counter,
     assigned |-> {}]

\* result.spans = findOrCreateVar(context.globalVars, spans, "spans")
AssignSpans(F, node, by, against, ctxArtboard, st, counter) ==
    LET spans == extractGridSpans(F, node, against)
        r == findOrCreateVar(st, counter, SpanObject(spans), "spans")
    IN  [spans |-> r.id, artboard |-> ctxArtboard, styles |-> r.styles,
         counter |-> r.counter,
         assigned |-> {[node |-> node, by |-> by, against |-> against, value |-> spans]}]

\* Mutant of GridWithContext: the span is computed against the ambient
\* artboard of the context.
GridWithAmbient(closure, F, node, spansRef, ctxArtboard, st, counter) ==
    IF RawNodeId(node) # closure.rawFileTargetId \/ ctxArtboard = NullDoc
    THEN Untouched(spansRef, ctxArtboard, st, counter)
    ELSE IF extractGridSpans(F, node, ctxArtboard) # NoSpan
         THEN AssignSpans(F, node, "withContext", ctxArtboard, ctxArtboard, st, counter)
         ELSE Untouched(spansRef, ctxArtboard, st, counter)

\* The extractor returned by createGridExtractorWithContext (lines 164-177).
GridWithContext(closure, F, node, spansRef, ctxArtboard, st, counter) ==
    IF RawNodeId(node) # closure.rawFileTargetId \/ closure.gridArtboard = NullDoc
    THEN Untouched(spansRef, ctxArtboard, st, counter)
    ELSE IF closure.gridArtboard.doc.hasGrids
            /\ extractGridSpans(F, node, closure.gridArtboard) # NoSpan
         THEN AssignSpans(F, node, "withContext", closure.gridArtboard, ctxArtboard,
                          st, counter)
         ELSE Untouched(spansRef, ctxArtboard, st, counter)

\* simpleGridExtractor (lines 183-197)
SimpleGrid(closure, F, node, spansRef, ctxArtboard, st, counter) ==
    LET artboard == IF IsGridFrame(F.kind[node]) THEN [node |-> node] ELSE ctxArtboard
    IN  IF extractGridSpans(F, node, artboard) # NoSpan
        THEN AssignSpans(F, node, "simple", artboard, artboard, st, counter)
        ELSE Untouched(spansRef, artboard, st, counter)

\* extractor(node, result, context)
RunExtractor(name, closure, F, node, spansRef, ctxArtboard, st, counter) ==
    IF name = "withContext"
    THEN GridWithContext(closure, F, node, spansRef, ctxArtboard, st, counter)
    ELSE IF name \in {"simple", "gridExtractor"}
         THEN SimpleGrid(closure, F, node, spansRef, ctxArtboard, st, counter)
         ELSE Untouched(spansRef, ctxArtboard, st, counter)

(***************************************************************************)
(* NodeWalker: preorder depth-first traversal.  Every extractor of the     *)
(* pipeline is invoked on a node in registration order; the children of a  *)
(* node are then visited with a copy of the node's context, so what an     *)
(* extractor sets in the context of a node holds for its subtree.          *)
(***************************************************************************)
\* The trees that are traversed: frames with and without a columns grid.
WalkFiles ==
    {F \in Files : /\ F.styles = [hasGrid |-> FALSE, mapped |-> {}]
                   /\ \A i \in NodeIds : F.kind[i] \in {ColumnsFrame, PlainFrame}}

WalkPipelines ==
    {<<"withContext">>, <<"simple">>, <<"withContext", "simple">>, <<"simple", "withContext">>}

NoClosure == [rawFileTargetId |-> <<>>, gridArtboard |-> NullDoc]

\* createGridExtractorWithContext(targetNodeId, gridArtboard)
createGridExtractorWithContext(targetNodeId, gridArtboard) ==
    [rawFileTargetId |-> NormalizeId(targetNodeId), gridArtboard |-> gridArtboard]

WalkIdle ==
    /\ wPhase = "idle"
    /\ wFile = MalformedFile
    /\ wPipeline = <<>>
    /\ wClosure = NoClosure
    /\ wStack = <<>>
    /\ wExt = 0
    /\ wOut = [i \in NodeIds |-> NoRef]
    /\ wStyles = <<>>
    /\ wCounter = 0
    /\ wLog = {}

\* The entries of the children of node i, each with a copy of the context.
ChildEntries(F, i, ctxArtboard) ==
    [k \in 1..Len(Children(F, i)) |-> [node |-> Children(F, i)[k], artboard |-> ctxArtboard]]

\* The traversal of F starts with the given initial context artboard.
BeginWalk(F, pipeline, closure, initialArtboard) ==
    /\ wPhase' = "walking"
    /\ wFile' = F
    /\ wPipeline' = pipeline
    /\ wClosure' = closure
    /\ wStack' = ChildEntries(F, 0, initialArtboard)
    /\ wExt' = 1
    /\ wOut' = [i \in NodeIds |-> NoRef]
    /\ wStyles' = <<>>
    /\ wCounter' = 0
    /\ wLog' = {}

\* An extraction whose pipeline holds the grid extractors.
StartWalk ==
    /\ wPhase = "idle"
    /\ \E F \in WalkFiles, pipeline \in WalkPipelines, targetNodeId \in TargetIds,
          gridArtboard \in ClosureArtboards :
         BeginWalk(F, pipeline, createGridExtractorWithContext(targetNodeId, gridArtboard),
                   NullDoc)
    /\ UNCHANGED notWalk

\* The next extractor of the pipeline is invoked on the node being visited.
InvokeExtractor ==
    /\ wPhase = "walking"
    /\ wExt <= Len(wPipeline)
    /\ LET top == Head(wStack)
           r == RunExtractor(wPipeline[wExt], wClosure, wFile, top.node, wOut[top.node],
                             top.artboard, wStyles, wCounter)
       IN  /\ wOut' = [wOut EXCEPT ![top.node] = r.spans]
           /\ wStack' = <<[node |-> top.node, artboard |-> r.artboard]>> \o Tail(wStack)
           /\ wStyles' = r.styles
           /\ wCounter' = r.counter
           /\ wLog' = wLog \cup r.assigned
    /\ wExt' = wExt + 1
    /\ UNCHANGED <<wPhase, wFile, wPipeline, wClosure>>
    /\ UNCHANGED notWalk

\* Every extractor has run on the node: its children are visited next, or
\* the traversal is over.
Descend ==
    /\ wPhase = "walking"
    /\ wExt > Len(wPipeline)
    /\ LET top == Head(wStack)
           rest == ChildEntries(wFile, top.node, top.artboard) \o Tail(wStack)
       IN  /\ wStack' = rest
           /\ wPhase' = IF rest = <<>> THEN "done" ELSE "walking"
    /\ wExt' = 1
    /\ UNCHANGED <<wFile, wPipeline, wClosure, wOut, wStyles, wCounter, wLog>>
    /\ UNCHANGED notWalk

(***************************************************************************)
(* simplifyRawFigmaObjectWithGrids (grid-aware-simplifier.ts 11-44).       *)
(*                                                                         *)
(* An options object and its initialContext are functions from the names   *)
(* of their members.  The built-in extractor named gridExtractor reads the *)
(* ambient artboard as simpleGridExtractor does.                           *)
(***************************************************************************)
Caller == "p1"

\* The responses that are traversed: a chain below a columns frame, and a
\* chain of plain frames.
SimFiles ==
    {F \in WalkFiles : /\ \A i \in NodeIds : F.parent[i] = i - 1
                       /\ \A i \in NodeIds \ {1} : F.kind[i] = PlainFrame}

ExtractorLists ==
    {<<"gridExtractor">>, <<"layoutExtractor">>, <<"layoutExtractor", "gridExtractor">>}

NoTarget == <<>>

\* An artboard the caller put into options.initialContext.
CallerArtboard == [doc |-> ColumnsDoc]

InitialContexts ==
    {[k \in {} |-> 0],
     [k \in {"artboard", "fileKey"} |-> IF k = "artboard" THEN CallerArtboard ELSE <<"F">>]}

OptionsObjects ==
    {[k \in {} |-> 0]}
        \cup {[k \in {"maxDepth", "nodeFilter", "initialContext"} |->
                  IF k = "maxDepth" THEN 2
                  ELSE IF k = "nodeFilter" THEN "visibleOnly" ELSE ic] :
                  ic \in InitialContexts}

\* Mutant of EnhanceOptions: the members of options.initialContext are
\* spread after artboard, so an artboard of the caller stays.
EnhanceOptionsCallerLast(options, gridArtboard) ==
    LET ic == IF "initialContext" \in DOMAIN options
              THEN options["initialContext"] ELSE [k \in {} |-> 0]
        newic == [k \in (DOMAIN ic) \cup {"artboard"} |->
                     IF k \in DOMAIN ic THEN ic[k] ELSE gridArtboard]
    IN  [k \in (DOMAIN options) \cup {"initialContext"} |->
            IF k = "initialContext" THEN newic ELSE options[k]]

\* { ...options, initialContext: { ...options.initialContext, artboard: gridArtboard } }
EnhanceOptions(options, gridArtboard) ==
    LET ic == IF "initialContext" \in DOMAIN options
              THEN options["initialContext"] ELSE [k \in {} |-> 0]
        newic == [k \in (DOMAIN ic) \cup {"artboard"} |->
                     IF k = "artboard" THEN gridArtboard ELSE ic[k]]
    IN  [k \in (DOMAIN options) \cup {"initialContext"} |->
            IF k = "initialContext" THEN newic ELSE options[k]]

\* targetNodeId && nodeExtractors.some(extractor => extractor.name === 'gridExtractor')
NeedsGridContext(targetNodeId, nodeExtractors) ==
    /\ targetNodeId # NoTarget
    /\ \E k \in 1..Len(nodeExtractors) : nodeExtractors[k] = "gridExtractor"

\* Mutant of AwaitSettled: the promise of createGridContext is not awaited.
NotAwaited(p) == TRUE

\* await createGridContext(...): the caller goes on when the promise has settled.
AwaitSettled(p) == pc[p] = "done"

\* The artboard handed to the traversal as a context artboard.
AsContextArtboard(gridArtboard) ==
    IF gridArtboard = NullDoc THEN NullDoc ELSE [doc |-> gridArtboard]

NoSimArgs == [none |-> TRUE]

NoOptions == [k \in {} |-> 0]

SimIdle ==
    /\ sPhase = "idle"
    /\ sArgs = NoSimArgs
    /\ sGridArtboard = NullDoc
    /\ enhancedOptions = NoOptions

\* Lines 33-43: the options are enhanced and the traversal runs.
HandToTraversal(F, nodeExtractors, options, gridArtboard) ==
    /\ sGridArtboard' = gridArtboard
    /\ enhancedOptions' = EnhanceOptions(options, gridArtboard)
    /\ sPhase' = "traversing"
    /\ BeginWalk(F, nodeExtractors, NoClosure,
                 AsContextArtboard(EnhanceOptions(options, gridArtboard)["initialContext"]["artboard"]))

\* simplifyRawFigmaObjectWithGrids(apiResponse, nodeExtractors, figmaService,
\* fileKey, targetNodeId, options)
CallSimplify ==
    /\ sPhase = "idle"
    /\ pc[Caller] = "idle"
    /\ \E F \in SimFiles, nodeExtractors \in ExtractorLists, fileKey \in FileKeys,
          targetNodeId \in {NoTarget} \cup TargetIds, options \in OptionsObjects :
         /\ sArgs' = [apiResponse |-> F, nodeExtractors |-> nodeExtractors,
                      fileKey |-> fileKey, targetNodeId |-> targetNodeId,
                      options |-> options]
         /\ IF NeedsGridContext(targetNodeId, nodeExtractors)
            THEN /\ SuspendAtRawFile(Caller, fileKey, targetNodeId)
                 /\ sPhase' = "resolving"
                 /\ UNCHANGED <<sGridArtboard, enhancedOptions>>
                 /\ UNCHANGED walkVars
            ELSE /\ HandToTraversal(F, nodeExtractors, options, NullDoc)
                 /\ UNCHANGED ctxVars
    /\ UNCHANGED <<storeVars, idVars, gsVars, spanVars>>

\* createGridContext has settled: gridArtboard is taken from its result, or
\* stays null when it rejected, and the traversal runs.
ResumeSimplify ==
    /\ sPhase = "resolving"
    /\ AwaitSettled(Caller)
    /\ HandToTraversal(sArgs.apiResponse, sArgs.nodeExtractors, sArgs.options,
                       IF result[Caller].kind = "resolved"
                       THEN result[Caller].gridArtboard ELSE NullDoc)
    /\ UNCHANGED sArgs
    /\ UNCHANGED <<storeVars, idVars, ctxVars, gsVars, spanVars>>

\* simplifyRawFigmaObject has returned the design.
ReturnSimplified ==
    /\ sPhase = "traversing"
    /\ wPhase = "done"
    /\ sPhase' = "done"
    /\ UNCHANGED <<sArgs, sGridArtboard, enhancedOptions>>
    /\ UNCHANGED notSim

SimRawFileFulfilled == RawFileFulfilled(Caller, ConcFiles)
SimRawFileRejected == RawFileRejected(Caller)
SimRawNodeFulfilled == RawNodeFulfilled(Caller)
SimRawNodeRejected == RawNodeRejected(Caller)

(***************************************************************************)
(* Specifications.                                                         *)
(***************************************************************************)
\* Nothing has been called yet.
AllIdle == StoreIdle /\ IdIdle /\ CtxIdle /\ GsIdle /\ SpanIdle /\ WalkIdle /\ SimIdle

InitStore == AllIdle

NextStore == CallFindOrCreateVar

SpecStore == InitStore /\ [][NextStore]_vars

InitId == AllIdle

NextId == PickRawId \/ Externalize \/ NormalizeTarget \/ CompareId

SpecId == InitId /\ [][NextId]_vars

InitTree == AllIdle

NextTree ==
    \/ TreeCallWithData
    \/ TreeCallWithoutData
    \/ TreeRawFileFulfilled
    \/ TreeRawFileRejected
    \/ TreeRawNodeFulfilled
    \/ TreeRawNodeRejected

SpecTree == InitTree /\ [][NextTree]_vars

InitStyles == AllIdle

NextStyles == CallExtractGlobalStyles \/ BatchFulfilled \/ BatchRejected

SpecStyles == InitStyles /\ [][NextStyles]_vars

InitSpan == AllIdle

NextSpan == PickSpanInput \/ CallComputeSpan

SpecSpan == InitSpan /\ [][NextSpan]_vars

InitConc == AllIdle

NextConc ==
    \/ ConcCallWithData
    \/ ConcCallWithoutData
    \/ ConcRawFileFulfilled
    \/ ConcRawFileRejected
    \/ ConcRawNodeFulfilled
    \/ ConcRawNodeRejected

SpecConc == InitConc /\ [][NextConc]_vars

InitWalk == AllIdle

NextWalk == StartWalk \/ InvokeExtractor \/ Descend

SpecWalk == InitWalk /\ [][NextWalk]_vars

InitSimplify == AllIdle

NextSimplify ==
    \/ CallSimplify
    \/ ResumeSimplify
    \/ SimRawFileFulfilled
    \/ SimRawFileRejected
    \/ SimRawNodeFulfilled
    \/ SimRawNodeRejected
    \/ InvokeExtractor
    \/ Descend
    \/ ReturnSimplified

SpecSimplify == InitSimplify /\ [][NextSimplify]_vars

Init == AllIdle

Next ==
    \/ SeqCallWithData
    \/ SeqCallWithoutData
    \/ SeqRawFileFulfilled
    \/ SeqRawFileRejected
    \/ SeqRawNodeFulfilled
    \/ SeqRawNodeRejected
    \/ SeqCallOver

Spec == Init /\ [][Next]_vars

(***************************************************************************)
(* Claims about the GlobalVars store (SpecStore).                          *)
(***************************************************************************)

\* C1: any two findOrCreateVar calls on one store whose values are
\* structurally equal (same fields with the same values) return the same id.
C1_EqualValuesShareId ==
    \A c1, c2 \in history : StructEq(c1[1], c2[1]) => c1[2] = c2[2]

\* C2: two findOrCreateVar calls whose values are structurally different
\* return different ids, and the value stored under an id is never replaced
\* by a different value.
C2_DistinctValuesNeverCollide ==
    /\ [](\A c1, c2 \in history : ~StructEq(c1[1], c2[1]) => c1[2] # c2[2])
    /\ [][\A i \in 1..Len(styles) : styles'[i] = styles[i]]_vars

(***************************************************************************)
(* Claims about the id normalisation (SpecId).                             *)
(***************************************************************************)

\* C8: for every raw-tree id, including ids whose raw form contains '-',
\* normalising the external dash-delimited form yields exactly the raw-tree
\* id, so the node is matched.
C8_NormalizeRoundTrips ==
    idPhase = "compared" => (rawFileTargetId = rawId /\ matched)

(***************************************************************************)
(* Claims about the grid resolver (SpecTree: one call over every tree).    *)
(*                                                                         *)
(* The claims speak of the tree through its parent relation, not through   *)
(* the search of the code.                                                 *)
(***************************************************************************)
\* A frame carrying at least one columns-pattern grid.
IsColumnsFrame(kind) ==
    kind.type = "FRAME" /\ kind.hasGrids /\ "COLUMNS" \in Range(kind.layoutGrids)

\* The deepest proper ancestor of node i that is a columns frame, or 0.
RECURSIVE NearestGridAncestor(_, _)
NearestGridAncestor(F, i) ==
    LET up == F.parent[i]
    IN  IF up = 0 THEN 0
        ELSE IF IsColumnsFrame(F.kind[up]) THEN up
        ELSE NearestGridAncestor(F, up)

\* The node of F the target id names, or 0 when it names none.
TargetNode(F, targetNodeId) ==
    LET hits == {i \in NodeIds : ExternalForm(RawNodeId(i)) = ExternalForm(targetNodeId)}
    IN  IF hits = {} THEN 0 ELSE Min(hits)

\* The call of p has searched a well-formed tree.
Searched(p) == pc[p] \in {"awaitNode", "done"} /\ fileData[p].ok

\* The grid frame the claims expect for the call of p, or 0.
ExpectedFrame(p) ==
    LET t == TargetNode(fileData[p], args[p].targetNodeId)
    IN  IF t = 0 THEN 0 ELSE NearestGridAncestor(fileData[p], t)

\* C3: the grid frame selected for the target is the deepest proper ancestor
\* of the target that is a FRAME with at least one COLUMNS grid; with
\* A > B > C, A and B both grid frames, B is selected and never A.
C3_NearestGridFrameSelected ==
    \A p \in Procs :
        Searched(p) =>
            /\ ExpectedFrame(p) # 0 =>
                   /\ gridInfo[p].kind = "info"
                   /\ gridInfo[p].artboard = ExpectedFrame(p)
            /\ gridInfo[p].kind = "info" => gridInfo[p].artboard = ExpectedFrame(p)

\* Witness of C3: target C below grid frame B below grid frame A, B selected.
C3_Witness ==
    \E p \in Procs :
        /\ Searched(p)
        /\ gridInfo[p].kind = "info"
        /\ LET F == fileData[p]
               c == TargetNode(F, args[p].targetNodeId)
               b == gridInfo[p].artboard
           IN  /\ c # 0
               /\ F.parent[c] = b
               /\ IsColumnsFrame(F.kind[b])
               /\ F.parent[b] # 0
               /\ IsColumnsFrame(F.kind[F.parent[b]])

\* C4: a target that is itself a columns frame is never its own grid frame:
\* the result is the frame inherited from its ancestors, or none.
C4_TargetNeverOwnGridFrame ==
    \A p \in Procs :
        LET t == TargetNode(fileData[p], args[p].targetNodeId)
        IN  (Searched(p) /\ t # 0 /\ IsColumnsFrame(fileData[p].kind[t])) =>
                IF ExpectedFrame(p) = 0
                THEN gridInfo[p] = NoGridInfo
                ELSE /\ gridInfo[p].kind = "info"
                     /\ gridInfo[p].artboard # t
                     /\ gridInfo[p].artboard = ExpectedFrame(p)

\* Witness of C4: the target is a columns frame below another columns frame.
C4_Witness ==
    \E p \in Procs :
        LET t == TargetNode(fileData[p], args[p].targetNodeId)
        IN  /\ Searched(p)
            /\ t # 0
            /\ IsColumnsFrame(fileData[p].kind[t])
            /\ gridInfo[p].kind = "info"
            /\ gridInfo[p].artboard = fileData[p].parent[t]

\* C5: when the fetch of the grid node fails for a target that is in the raw
\* tree, the result is {gridArtboard: null, targetFound: true}: the failure
\* degrades the grid artboard only, not what is known about the target.
C5_FetchFailureKeepsTargetFound ==
    \A p \in Procs :
        (/\ pc[p] = "done"
         /\ fileData[p].ok
         /\ remote[p].node = "rejected"
         /\ TargetNode(fileData[p], args[p].targetNodeId) # 0)
            => result[p] = Resolved(NullDoc, TRUE)

\* No remote call of the call of p has failed.
NoRemoteFailure(p) == remote[p].file # "rejected" /\ remote[p].node # "rejected"

\* C6: when no remote call fails, the result is {null, true} if the target
\* is in the raw tree without an ancestor frame carrying a columns grid,
\* and {null, false} if the target id is nowhere in the raw tree.
C6_NoGridAndNotFound ==
    \A p \in Procs :
        (pc[p] = "done" /\ fileData[p].ok /\ NoRemoteFailure(p)) =>
            LET t == TargetNode(fileData[p], args[p].targetNodeId)
            IN  /\ (t # 0 /\ ExpectedFrame(p) = 0) => result[p] = Resolved(NullDoc, TRUE)
                /\ t = 0 => result[p] = Resolved(NullDoc, FALSE)

\* Witness of C6: a nested target without a grid frame above it, found.
C6_Witness ==
    \E p \in Procs :
        LET t == TargetNode(fileData[p], args[p].targetNodeId)
        IN  /\ pc[p] = "done"
            /\ fileData[p].ok
            /\ remote[p].file = "fulfilled"
            /\ t # 0
            /\ fileData[p].parent[t] # 0
            /\ ExpectedFrame(p) = 0
            /\ result[p] = Resolved(NullDoc, TRUE)

(***************************************************************************)
(* Claims about createGridContext over sequences of calls (Spec).          *)
(***************************************************************************)

\* C7: createGridContext never throws or rejects: whatever getRawFile and
\* getRawNode do, the call resolves to a {gridArtboard, targetFound} value.
C7_NeverRejects ==
    \A p \in Procs :
        /\ result[p] # Rejected
        /\ pc[p] = "done" =>
               /\ result[p].kind = "resolved"
               /\ result[p].targetFound \in BOOLEAN

\* Witness of C7: a call whose node fetch was rejected ended resolved.
C7_Witness ==
    \E p \in Procs :
        /\ pc[p] = "done"
        /\ remote[p].node = "rejected"
        /\ result[p].kind = "resolved"

\* The documents held by the cache.
CachedDocs == {gridCache[k] : k \in DOMAIN gridCache}

\* The call of p resolves, in the step taken, to the pair of the cached d.
ResolvesTo(p, d) ==
    /\ pc[p] \in {"idle", "awaitFile"}
    /\ pc'[p] \in {"awaitNode", "done"}
    /\ gridInfo'[p].kind = "info"
    /\ args'[p].fileKey = d.file
    /\ gridInfo'[p].gridNodeId = d.id

\* C9: once a grid node has been fetched for a (fileKey, nodeId) pair, every
\* later call resolving to that pair returns the cached node without calling
\* getRawNode; entries are never evicted; a call for another pair never
\* receives that node.
C9_CacheServesSamePairOnly ==
    /\ [][\A p \in Procs : \A d \in CachedDocs :
             ResolvesTo(p, d) =>
                 /\ pc'[p] = "done"
                 /\ remote'[p].node = "none"
                 /\ result'[p] = Resolved(d, TRUE)]_vars
    /\ [][\A k \in DOMAIN gridCache :
             k \in DOMAIN gridCache' /\ gridCache'[k] = gridCache[k]]_vars
    /\ [](\A p \in Procs :
             (pc[p] = "done" /\ result[p].kind = "resolved"
                  /\ result[p].gridArtboard # NullDoc) =>
                 /\ result[p].gridArtboard.file = args[p].fileKey
                 /\ result[p].gridArtboard.id = gridInfo[p].gridNodeId)

\* Witness of C9: a call served from the cache, getRawNode not called.
C9_Witness ==
    \E p \in Procs :
        /\ pc[p] = "done"
        /\ remote[p].node = "none"
        /\ result[p].kind = "resolved"
        /\ result[p].gridArtboard # NullDoc

(***************************************************************************)
(* Claims about extractGlobalStyles (SpecStyles).                          *)
(***************************************************************************)
\* The style ids of batch b (b = 0, 1, ...) of n ids.
BatchIds(b, n) == {k \in 1..n : (k - 1) \div batchSize = b}

NumBatches(n) == (n + batchSize - 1) \div batchSize

\* How the fetch of the ids S settled: "never" when it was not made.
OutcomeOf(S) ==
    LET made == {r \in 1..Len(requests) : Range(requests[r].ids) = S}
    IN  IF made = {} THEN "never" ELSE requests[Min(made)].outcome

\* The style ids that appear in the returned global styles.
Contributing ==
    gsResult.value.gridSystems \cup Range(gsResult.value.fontStyles)
        \cup Range(gsResult.value.colors)

\* C10: if the fetch of a batch throws, the nodes of every other batch,
\* earlier and later, are in the collected style nodes and contribute to the
\* result, the failed batch contributes nothing, and no exception of a
\* fetch escapes extractGlobalStyles.
C10_FailedBatchSkipped ==
    gsPhase = "done" =>
        /\ gsResult.kind = "resolved"
        /\ \A b \in 0..(NumBatches(styleCount) - 1) :
             LET ids == BatchIds(b, styleCount)
             IN  /\ OutcomeOf(ids) = "rejected" =>
                        /\ ids \cap styleNodes = {}
                        /\ ids \cap Contributing = {}
                 /\ OutcomeOf(ids) \notin {"rejected", "noNodes"} =>
                        /\ ids \subseteq styleNodes
                        /\ ids \subseteq Contributing

\* Witness of C10: three batches, the second failed, the first and the
\* third delivered and present.
C10_Witness ==
    /\ gsPhase = "done"
    /\ Len(requests) = 3
    /\ requests[1].outcome = "nodes"
    /\ requests[2].outcome = "rejected"
    /\ requests[3].outcome = "nodes"
    /\ Range(requests[1].ids) \cup Range(requests[3].ids) \subseteq Contributing
    /\ Range(requests[2].ids) \cap Contributing = {}

\* The ids asked for by the first k getRawNode calls, one after the other.
RECURSIVE RequestedIds(_)
RequestedIds(k) ==
    IF k = 0 THEN <<>> ELSE RequestedIds(k - 1) \o requests[k].ids

\* C11: for n style ids extractGlobalStyles makes exactly ceil(n/50)
\* getRawNode calls (none when n = 0), never more than one in flight, each
\* id in exactly one batch and in its original order, and no batch is
\* asked for a second time, whether it was fulfilled or rejected.
C11_BatchesSequentialOnce ==
    /\ \A r \in 1..Len(requests) :
         requests[r].outcome = "pending" => r = Len(requests) /\ gsPhase = "awaitBatch"
    /\ \A r1, r2 \in 1..Len(requests) :
         requests[r1].ids = requests[r2].ids => r1 = r2
    /\ \A r \in 1..Len(requests) :
         /\ requests[r].ids # <<>>
         /\ Len(requests[r].ids) <= batchSize
    /\ gsPhase = "awaitBatch" => requests[Len(requests)].outcome = "pending"
    /\ gsPhase = "done" =>
         /\ Len(requests) = NumBatches(styleCount)
         /\ RequestedIds(Len(requests)) = StyleIdsOf(styleCount)

\* Witness of C11: 101 ids took three calls, one of them rejected.
C11_Witness ==
    /\ gsPhase = "done"
    /\ styleCount = 2 * batchSize + 1
    /\ Len(requests) = 3
    /\ \E r \in 1..3 : requests[r].outcome = "rejected"
    /\ requests[3].ids = <<styleCount>>

(***************************************************************************)
(* Further claims about the GlobalVars store (SpecStore).                  *)
(***************************************************************************)
\* The entries of the store that hold exactly the value v.
EntriesHolding(st, v) == {i \in 1..Len(st) : st[i][2] = v}

\* C14: findOrCreateVar with a value that is already stored returns the id
\* it is stored under and leaves the store unchanged (no entry is added),
\* and calling it again with the same value gives the same store as
\* calling it once.
C14_StoredValueIdempotent ==
    /\ [][storeCalls' = storeCalls + 1 =>
            /\ EntriesHolding(styles, lastCall'.value) # {} =>
                   /\ styles' = styles
                   /\ varCounter' = varCounter
                   /\ \E i \in EntriesHolding(styles, lastCall'.value) :
                          lastCall'.id = styles[i][1]
            /\ \A prefix \in Prefixes :
                   LET again == findOrCreateVar(styles', varCounter', lastCall'.value, prefix)
                   IN  /\ again.styles = styles'
                       /\ again.counter = varCounter'
                       /\ again.id = lastCall'.id]_vars
    /\ [](\A v \in Values, prefix \in Prefixes :
            EntriesHolding(styles, v) # {} =>
                findOrCreateVar(styles, varCounter, v, prefix).styles = styles)

\* Witness of C14: two calls with one value left one entry.
C14_Witness ==
    /\ storeCalls = 2
    /\ Len(styles) = 1
    /\ Cardinality(history) = 1
    /\ styles[1][2] = lastCall.value
    /\ styles[1][1] = lastCall.id

\* The entries of the store whose serialisation equals that of v.
EntriesEqualTo(st, v) ==
    {i \in 1..Len(st) : JSONstringify(st[i][2]) = JSONstringify(v)}

\* C20: the lookup of findOrCreateVar ignores the kind prefix: when the
\* value equals an entry, also one minted under another prefix, the id of
\* that entry is returned and no entry is created; the prefix asked for
\* shows in a returned id that was not in the store only when a new entry
\* is minted.
C20_DedupAcrossKinds ==
    [][storeCalls' = storeCalls + 1 =>
         LET equal == EntriesEqualTo(styles, lastCall'.value)
         IN  /\ equal # {} =>
                    /\ lastCall'.id = styles[Min(equal)][1]
                    /\ styles' = styles
             /\ equal = {} =>
                    /\ lastCall'.id[1] = lastCall'.prefix
                    /\ Len(styles') = Len(styles) + 1
                    /\ styles'[Len(styles')] = <<lastCall'.id, lastCall'.value>>
                    /\ \A i \in 1..Len(styles) : styles[i][1] # lastCall'.id]_vars

\* Witness of C20: a call asking for one kind got the id of an entry of
\* the other kind, and the store did not grow.
C20_Witness ==
    /\ storeCalls = 2
    /\ Len(styles) = 1
    /\ lastCall.id = styles[1][1]
    /\ lastCall.id[1] # lastCall.prefix

(***************************************************************************)
(* Claim about computeSpan (SpecSpan).                                     *)
(***************************************************************************)
ExampleSpanInput ==
    [box |-> [x |-> 0, width |-> 400],
     artboard |-> [x |-> 0, width |-> 1200,
                   layoutGrids |-> <<[pattern |-> "COLUMNS", count |-> 12,
                                      gutter |-> 20, margin |-> 0]>>]]

\* C15: for artboard width 1200, margin 0, count 12, gutter 20 and a node
\* at localX 0 of width 400, computeSpan returns width 400, startColumn 0
\* and endColumn 5.
C15_ExampleSpan ==
    (spanPhase = "done" /\ spanInput = ExampleSpanInput) =>
        spanResult = [width |-> 400, startColumn |-> 0, endColumn |-> 5]

(***************************************************************************)
(* Claim about the style-map redirect of createGridContext (SpecTree).     *)
(***************************************************************************)
\* The id the claim expects to be fetched for grid frame f of file F.
ExpectedGridNodeId(F, f) ==
    IF F.styles.hasGrid /\ f \in F.styles.mapped THEN StyleNodeId(f) ELSE RawNodeId(f)

\* C19: when the selected grid frame has an entry in fileStyles.grid, the
\* node with the mapped id is fetched and cached, otherwise the node with
\* the frame's own id; the returned gridArtboard is the document of the
\* fetched node, or null when the response holds no node, and never the
\* frame of the tree; getRawFile is not called when a pre-fetched tree is
\* supplied.
C19_StyleMapRedirect ==
    /\ \A p \in Procs : args[p].rawFileData => remote[p].file = "none"
    /\ \A p \in Procs :
            (Searched(p) /\ gridInfo[p].kind = "info") =>
                LET F == fileData[p]
                    f == gridInfo[p].artboard
                    key == CacheKey(args[p].fileKey, ExpectedGridNodeId(F, f))
                IN  /\ gridInfo[p].gridNodeId = ExpectedGridNodeId(F, f)
                    /\ pc[p] = "awaitNode" => remote[p].node = "pending"
                    /\ (pc[p] = "done" /\ remote[p].node = "fulfilled") =>
                           /\ result[p].kind = "resolved"
                           /\ result[p].gridArtboard \in
                                  {NullDoc} \cup
                                  {NodeDoc(args[p].fileKey, ExpectedGridNodeId(F, f), r) :
                                      r \in Revisions}
                           /\ result[p].gridArtboard # NullDoc =>
                                  /\ key \in DOMAIN gridCache
                                  /\ gridCache[key] = result[p].gridArtboard
                                  /\ DOMAIN gridCache = {key}

\* Witness of C19: a pre-fetched tree whose grid frame is mapped by the
\* style map; the mapped node was fetched, returned and cached.
C19_Witness ==
    \E p \in Procs :
        /\ pc[p] = "done"
        /\ gridInfo[p].kind = "info"
        /\ gridInfo[p].gridNodeId = StyleNodeId(gridInfo[p].artboard)
        /\ args[p].rawFileData
        /\ remote[p] = [file |-> "none", node |-> "fulfilled"]
        /\ result[p].kind = "resolved"
        /\ result[p].gridArtboard # NullDoc
        /\ result[p].gridArtboard.id = StyleNodeId(gridInfo[p].artboard)
        /\ gridCache[CacheKey(args[p].fileKey, gridInfo[p].gridNodeId)] = result[p].gridArtboard

(***************************************************************************)
(* Claim about overlapping createGridContext calls (SpecConc).             *)
(***************************************************************************)
\* The call of p fetched a grid node for the pair that q is still fetching.
FetchedWhileAwaited(p, q) ==
    /\ p # q
    /\ pc[p] = "done"
    /\ remote[p].node = "fulfilled"
    /\ result[p].kind = "resolved"
    /\ result[p].gridArtboard # NullDoc
    /\ pc[q] = "awaitNode"
    /\ CacheKey(args[q].fileKey, gridInfo[q].gridNodeId)
           = CacheKey(args[p].fileKey, gridInfo[p].gridNodeId)

\* C18: when several createGridContext calls for the same (fileKey, nodeId)
\* are in flight at once, a cache entry that was written is never replaced
\* by a different value, and all those calls return the same grid node.
C18_OverlappingCallsAgree ==
    /\ [][\A k \in DOMAIN gridCache :
            k \in DOMAIN gridCache' /\ gridCache'[k] = gridCache[k]]_vars
    /\ [][\A p, q \in Procs :
            (FetchedWhileAwaited(p, q) /\ pc'[q] = "done"
                /\ result'[q].kind = "resolved" /\ result'[q].gridArtboard # NullDoc) =>
                result'[q].gridArtboard = result[p].gridArtboard]_vars

(***************************************************************************)
(* Claims about the grid extractors in a traversal (SpecWalk).             *)
(***************************************************************************)
\* The values stored under id in the store of the extraction.
StoredUnder(id) == {wStyles[k][2] : k \in {j \in 1..Len(wStyles) : wStyles[j][1] = id}}

\* The node the bound target id names.
IsTarget(i) == RawNodeId(i) = wClosure.rawFileTargetId

\* C13: every output node that carries a spans reference refers to an
\* existing key of globalVars.styles, and the value under that key is the
\* span result computed for that node, a record with a width.
C13_SpansReferenceResolves ==
    \A i \in NodeIds :
        wOut[i] # NoRef =>
            /\ Cardinality(StoredUnder(wOut[i])) = 1
            /\ \A v \in StoredUnder(wOut[i]) :
                 /\ \E e \in wLog : e.node = i /\ SpanObject(e.value) = v
                 /\ \E m \in 1..Len(v) :
                      v[m] = <<"width", ToString(NodeBox(i).width)>>

\* Witness of C13: a finished extraction whose output nodes refer to two
\* different stored spans.
C13_Witness ==
    /\ wPhase = "done"
    /\ \E i, j \in NodeIds :
         /\ wOut[i] # NoRef
         /\ wOut[j] # NoRef
         /\ wOut[i] # wOut[j]
         /\ StoredUnder(wOut[i]) # StoredUnder(wOut[j])

C17_SimpleUsesNearestProperAncestor ==
    \A e \in wLog :
        e.by = "simple" =>
            /\ e.against # [node |-> e.node]
            /\ NearestGridAncestor(wFile, e.node) # 0
            /\ e.against = [node |-> NearestGridAncestor(wFile, e.node)]

(***************************************************************************)
(* Claim about simplifyRawFigmaObjectWithGrids (SpecSimplify).             *)
(***************************************************************************)
\* A remote fetch of some call has been started and has not settled.
FetchInFlight ==
    \E p \in Procs : remote[p].file = "pending" \/ remote[p].node = "pending"

\* C12: every remote fetch of the grid pre-resolution has settled, with a
\* result or with a caught failure, before the traversal visits its first
\* node, and from the first to the last extractor invocation no remote
\* fetch is started or awaited.
C12_FetchesBeforeTraversal ==
    /\ [](wPhase \in {"walking", "done"} =>
            /\ ~FetchInFlight
            /\ \A p \in Procs : pc[p] \in {"idle", "done"})
    /\ [][wPhase = "walking" => (remote' = remote /\ pc' = pc)]_vars

\* Witness of C12: the traversal is among its extractor invocations after
\* both fetches of the pre-resolution were fulfilled.
C12_Witness ==
    /\ sPhase = "traversing"
    /\ wPhase = "walking"
    /\ wLog # {}
    /\ remote[Caller] = [file |-> "fulfilled", node |-> "fulfilled"]
    /\ sGridArtboard # NullDoc

\* The pre-resolution was asked for and gave a grid artboard.
PreResolved ==
    /\ sArgs.targetNodeId # NoTarget
    /\ "gridExtractor" \in Range(sArgs.nodeExtractors)
    /\ result[Caller].kind = "resolved"
    /\ result[Caller].gridArtboard # NullDoc

\* The initialContext of the caller's options, empty when there is none.
CallerInitialContext ==
    IF "initialContext" \in DOMAIN sArgs.options
    THEN sArgs.options["initialContext"] ELSE NoOptions

\* C21: simplifyRawFigmaObjectWithGrids hands maxDepth, nodeFilter and every
\* member of initialContext other than artboard to the traversal unchanged
\* and does not change the caller's options object; initialContext.artboard
\* is always replaced: by the pre-resolved grid artboard when a target id is
\* given, an extractor named gridExtractor is in the list and the
\* resolution succeeds, and by null in every other case, also when the
\* caller supplied an artboard.
C21_OptionsPassedArtboardReplaced ==
    /\ [](sPhase \in {"traversing", "done"} =>
            /\ DOMAIN enhancedOptions = (DOMAIN sArgs.options) \cup {"initialContext"}
            /\ \A k \in (DOMAIN sArgs.options) \ {"initialContext"} :
                 enhancedOptions[k] = sArgs.options[k]
            /\ DOMAIN enhancedOptions["initialContext"]
                   = (DOMAIN CallerInitialContext) \cup {"artboard"}
            /\ \A k \in (DOMAIN CallerInitialContext) \ {"artboard"} :
                 enhancedOptions["initialContext"][k] = CallerInitialContext[k]
            /\ enhancedOptions["initialContext"]["artboard"]
                   = IF PreResolved THEN result[Caller].gridArtboard ELSE NullDoc)
    /\ [][sPhase # "idle" => sArgs' = sArgs]_vars

\* Witness of C21: the caller supplied an artboard and a file key in
\* initialContext and no target id; the traversal got the file key and a
\* null artboard.
C21_Witness ==
    /\ sPhase = "done"
    /\ sArgs.targetNodeId = NoTarget
    /\ "initialContext" \in DOMAIN sArgs.options
    /\ "artboard" \in DOMAIN sArgs.options["initialContext"]
    /\ sArgs.options["initialContext"]["artboard"] = CallerArtboard
    /\ enhancedOptions["initialContext"]["artboard"] = NullDoc
    /\ enhancedOptions["initialContext"]["fileKey"] = sArgs.options["initialContext"]["fileKey"]
    /\ enhancedOptions["maxDepth"] = 2
    /\ enhancedOptions["nodeFilter"] = "visibleOnly"

\* A second case of C21: the pre-resolved artboard replaced the caller's.
C21_WitnessResolved ==
    /\ sPhase = "done"
    /\ PreResolved
    /\ "artboard" \in DOMAIN CallerInitialContext
    /\ enhancedOptions["initialContext"]["artboard"] = result[Caller].gridArtboard

====
